---- MODULE Spec2Model ----
(***************************************************************************)
(* A model of the MCP client of mcp-claude-db-query-demo:                  *)
(*   - MCPClient.filter_schema  (src/client/client.py, lines 61-82)        *)
(*   - MCPClient.process_query  (src/client/client.py, lines 84-193)       *)
(*   - the two tools of src/db_query_server.py                             *)
(*                                                                         *)
(* Python strings are modelled as sequences of tokens (a token is a chunk  *)
(* of characters), so that lower(), substring tests, split, strip, join    *)
(* and f-string formatting are computed rather than assumed.               *)
(* JSON values are tagged: Str(s), List(seq), Dict(function on key names). *)
(***************************************************************************)
EXTENDS Integers, Sequences, FiniteSets, TLC

VARIABLES
    pc,             \* position of process_query
    query,          \* the query argument
    provider,       \* the shape of the content the tool provider returns
    nrows,          \* rows of the crops table that match a crop lookup
    gemini_tools,   \* translated tool specs given to the model
    history,        \* conversation history
    final_text,     \* list of texts collected for the answer
    text_parts,     \* text parts of the latest model turn
    function_calls, \* function calls of the latest model turn
    idx,            \* position of the for loop over function_calls
    crop_type,      \* entity selected by the fallback
    result,         \* value returned by process_query
    modelCalls,     \* number of generate_content invocations
    invoked,        \* log of call_tool invocations
    listCalls,      \* number of list_tools invocations
    available_tools,\* the tool descriptors list_tools returned
    modelTools,     \* the tool specs passed to each generate_content invocation
    error,          \* message of the exception process_query raised
    loop,           \* position of chat_loop
    typed,          \* the line input() returned
    printed,        \* what the current iteration of chat_loop printed
    reads,          \* number of input() calls
    reported,       \* message of the latest error chat_loop reported
    other,          \* the locals of a second, suspended process_query invocation
    cur,            \* which of the two invocations is running
    schema,         \* input of a filter_schema run
    translated,     \* filter_schema(schema)
    retranslated,   \* filter_schema(filter_schema(schema))
    spc             \* position of the filter_schema run

vars == <<pc, query, provider, nrows, gemini_tools, history, final_text,
          text_parts, function_calls, idx, crop_type, result, modelCalls,
          invoked, listCalls, available_tools, modelTools, error,
          loop, typed, printed, reads, reported, other, cur,
          schema, translated, retranslated, spc>>

queryVars == <<pc, query, provider, nrows, gemini_tools, history, final_text,
               text_parts, function_calls, idx, crop_type, result, modelCalls,
               invoked, listCalls, available_tools, modelTools, error>>

callerVars == <<loop, typed, printed, reads, reported>>

pairVars == <<other, cur>>

schemaVars == <<schema, translated, retranslated, spc>>

(***************************************************************************)
(* Bounds                                                                  *)
(***************************************************************************)
MaxTurns == 2
MaxRows == 3
MaxDepth == 2
MaxQueries == 2

(***************************************************************************)
(* JSON values                                                             *)
(***************************************************************************)
Str(s) == [k |-> "str", v |-> s]
List(q) == [k |-> "list", v |-> q]
Dict(f) == [k |-> "dict", v |-> f]

\* The outcome of a call that raised instead of returning.
Raised == [k |-> "raise", v |-> "AttributeError"]

EmptyMap == [n \in {} |-> Str("")]

IsDict(x) == x.k = "dict"
IsList(x) == x.k = "list"
HasKey(x, n) == n \in DOMAIN x.v

\* str.upper() on the type names that occur
Upper(s) ==
    CASE s = "object" -> "OBJECT"
      [] s = "string" -> "STRING"
      [] s = "integer" -> "INTEGER"
      [] s = "x" -> "X"
      [] OTHER -> s

\* dict.get(key, default)
Get(x, n, default) == IF HasKey(x, n) THEN x.v[n] ELSE default

\* lines 64-71: the object schema built from the translated properties
ObjectBranch(x, props) ==
    IF \E p \in DOMAIN props : props[p] = Raised
    THEN Raised
    ELSE Dict([n \in {"type", "properties", "required"} |->
                CASE n = "type" -> Str(Upper(x.v["type"].v))
                  [] n = "properties" -> Dict(props)
                  [] n = "required" -> Get(x, "required", List(<<>>))])

\* lines 73-76: schema['type'].upper() raises when the value is not a string
LeafBranch(x) ==
    IF x.v["type"].k # "str"
    THEN Raised
    ELSE Dict([n \in {"type", "description"} |->
                CASE n = "type" -> Str(Upper(x.v["type"].v))
                  [] n = "description" -> Get(x, "description", Str(""))])

PassKeys_KeepsTitle(x) == DOMAIN x.v

\* line 78: the keys kept of a mapping without 'type'
PassKeys(x) == {n \in DOMAIN x.v : n # "title"}

\* line 63: 'type' in schema and schema['type'] == 'object'
IsObjectSchema(x) == HasKey(x, "type") /\ x.v["type"] = Str("object")

\* line 68: schema.get('properties', {}) of an object schema
PropertiesOf(x) == Get(x, "properties", Dict(EmptyMap))

RECURSIVE filter_schema(_)
filter_schema(x) ==
    IF IsDict(x) THEN
        IF IsObjectSchema(x) THEN
            ObjectBranch(x, [p \in DOMAIN PropertiesOf(x).v |->
                                filter_schema(x.v["properties"].v[p])])
        ELSE IF HasKey(x, "type") THEN
            LeafBranch(x)
        ELSE
            LET kept == [n \in PassKeys(x) |-> filter_schema(x.v[n])]
            IN  IF \E n \in DOMAIN kept : kept[n] = Raised
                THEN Raised ELSE Dict(kept)
    ELSE IF IsList(x) THEN
        LET items == [i \in DOMAIN x.v |-> filter_schema(x.v[i])]
        IN  IF \E i \in DOMAIN items : items[i] = Raised
            THEN Raised ELSE List(items)
    ELSE x

(***************************************************************************)
(* The schemas a run of filter_schema is given: JSON-schema-shaped values  *)
(* nested to a bounded depth.                                              *)
(***************************************************************************)
Map1(n1, v1) == Dict([n \in {n1} |-> v1])
Map2(n1, v1, n2, v2) == Dict([n \in {n1, n2} |-> IF n = n1 THEN v1 ELSE v2])
Map3(n1, v1, n2, v2, n3, v3) ==
    Dict([n \in {n1, n2, n3} |-> IF n = n1 THEN v1 ELSE IF n = n2 THEN v2 ELSE v3])
Map4(n1, v1, n2, v2, n3, v3, n4, v4) ==
    Dict([n \in {n1, n2, n3, n4} |->
            IF n = n1 THEN v1 ELSE IF n = n2 THEN v2 ELSE IF n = n3 THEN v3 ELSE v4])

TypeNames == {"string", "STRING"}

LeafSchemas ==
    {Str("x"), Dict(EmptyMap), List(<<>>), Map1("title", Str("T")),
     Map1("type", Str("object")),
     Map1("type", List(<<Str("string"), Str("null")>>)),
     Map3("type", Str("OBJECT"), "properties", Dict(EmptyMap), "required", List(<<>>))}
    \cup {Map1("type", Str(t)) : t \in TypeNames}
    \cup {Map2("type", Str(t), "title", Str("T")) : t \in TypeNames}
    \cup {Map2("type", Str(t), "description", Str("d")) : t \in TypeNames}
    \cup {Map3("type", Str(t), "description", Str("d"), "title", Str("T")) : t \in TypeNames}

Wrap(s) ==
    {Map2("type", Str("object"), "properties", Map1("a", s)),
     Map4("type", Str("object"), "properties", Map1("a", s),
          "required", List(<<Str("a")>>), "title", Str("T")),
     Map3("type", Str("object"), "properties", Map1("title", s),
          "required", List(<<Str("title")>>)),
     Map3("type", Str("OBJECT"), "properties", Map1("a", s),
          "required", List(<<Str("a")>>)),
     Map1("k", s),
     Map2("title", Str("T"), "k", s),
     Map1("title", s),
     Map1("type", s),
     List(<<s>>),
     List(<<s, Str("x")>>)}

RECURSIVE SchemasOfDepth(_)
SchemasOfDepth(d) ==
    IF d = 0 THEN LeafSchemas
    ELSE LET inner == SchemasOfDepth(d - 1)
         IN  LeafSchemas \cup UNION {Wrap(s) : s \in inner}

Schemas == SchemasOfDepth(MaxDepth)

NoValue == [k |-> "none", v |-> ""]

SchemaInit ==
    /\ schema \in Schemas
    /\ translated = NoValue
    /\ retranslated = NoValue
    /\ spc = "input"

\* one run of filter_schema (lines 61-82), as process_query runs it at line 100
Translate ==
    /\ spc = "input"
    /\ translated' = filter_schema(schema)
    /\ spc' = IF translated' = Raised THEN "raised" ELSE "translated"
    /\ UNCHANGED <<schema, retranslated>>

\* filter_schema applied to its own output
Retranslate ==
    /\ spc = "translated"
    /\ retranslated' = filter_schema(translated)
    /\ spc' = "retranslated"
    /\ UNCHANGED <<schema, translated>>

(***************************************************************************)
(* Python strings: sequences of tokens                                     *)
(***************************************************************************)
NL == "\n"
Whitespace == {" ", NL}

\* str.lower() on one token
LowerTok(t) ==
    CASE t = "How Many" -> "how many"
      [] t = "HOW MANY" -> "how many"
      [] t = "Corn" -> "corn"
      [] t = "CORN" -> "corn"
      [] t = "Tell me about" -> "tell me about"
      [] t = "Quit" -> "quit"
      [] t = "QUIT" -> "quit"
      [] OTHER -> t

\* str.lower()
Lower(s) == [i \in DOMAIN s |-> LowerTok(s[i])]

\* needle in s
Contains(needle, s) ==
    \E i \in 0..(Len(s) - Len(needle)) : SubSeq(s, i + 1, i + Len(needle)) = needle

\* s.split('\n')
RECURSIVE Split(_)
Split(s) ==
    IF \A i \in DOMAIN s : s[i] # NL THEN <<s>>
    ELSE LET i == CHOOSE j \in DOMAIN s : s[j] = NL /\ \A h \in 1..(j - 1) : s[h] # NL
         IN  <<SubSeq(s, 1, i - 1)>> \o Split(SubSeq(s, i + 1, Len(s)))

\* the truth value of line.strip()
NonBlank(line) == \E i \in DOMAIN line : line[i] \notin Whitespace

\* lines 144 and 172: len([line for line in text.split('\n') if line.strip()])
CountNonEmptyLines(text) ==
    LET lines == Split(text)
    IN  Cardinality({i \in DOMAIN lines : NonBlank(lines[i])})

\* "\n".join(list)
RECURSIVE Join(_)
Join(list) ==
    IF list = <<>> THEN <<>>
    ELSE IF Len(list) = 1 THEN list[1]
    ELSE list[1] \o <<NL>> \o Join(Tail(list))

Digit(d) == <<"0", "1", "2", "3", "4", "5", "6", "7", "8", "9">>[d + 1]

\* str(n) of a natural number
RECURSIVE NumStr(_)
NumStr(n) == IF n < 10 THEN <<Digit(n)>> ELSE NumStr(n \div 10) \o <<Digit(n % 10)>>

\* str.strip()
RECURSIVE Strip(_)
Strip(s) ==
    IF s = <<>> THEN s
    ELSE IF Head(s) \in Whitespace THEN Strip(Tail(s))
    ELSE IF s[Len(s)] \in Whitespace THEN Strip(SubSeq(s, 1, Len(s) - 1))
    ELSE s

\* repr() escapes of a string: a line break becomes backslash-n
Escape(s) == [i \in DOMAIN s |-> IF s[i] = NL THEN "\\n" ELSE s[i]]

(***************************************************************************)
(* The tool provider (src/db_query_server.py) and the content it returns   *)
(***************************************************************************)
CropTool == "get_crop_info"
FarmTool == "get_farm_info"

\* one line of get_crop_info's answer (line 34)
CropRow(i, crop) ==
    <<"ID: ">> \o NumStr(i) \o <<", Type: ", crop, ", Planting Date: 2024-01-01, Farm ID: 1">>

RECURSIVE CropRows(_, _, _)
CropRows(n, crop, sep) ==
    IF n = 0 THEN <<>>
    ELSE IF n = 1 THEN CropRow(1, crop)
    ELSE CropRows(n - 1, crop, sep) \o sep \o CropRow(n, crop)

\* get_crop_info (lines 21-35) over a table with n rows of the type
get_crop_info(crop, n) ==
    IF n = 0 THEN <<"No information found for crop type: ", crop>>
    ELSE CropRows(n, crop, <<NL>>)

\* get_farm_info (lines 38-49) for a farm that exists
get_farm_info(farm_id) ==
    <<"ID: ", farm_id, ", Name: Green Acres, Location: Iowa">>

\* a stub provider answering with the rows between blank and whitespace lines
StubCropText(crop, n) ==
    IF n = 0 THEN <<>> ELSE CropRows(n, crop, <<NL, " ", NL, NL>>) \o <<NL>>

Providers == {"stub_plain", "stub_text", "mcp"}

\* The content of a CallToolResult: a plain string, an object with a .text
\* attribute, or (the MCP session) a list of TextContent.
ContentKind(p) ==
    CASE p = "stub_plain" -> "str"
      [] p = "stub_text" -> "obj"
      [] p = "mcp" -> "list"

Content(p, text) == [kind |-> ContentKind(p), text |-> text]

\* str(result.content)
StrOf(content) ==
    CASE content.kind = "str" -> content.text
      [] content.kind = "obj" ->
            <<"TextContent(type='text', text='">> \o Escape(content.text) \o <<"')">>
      [] content.kind = "list" ->
            <<"[TextContent(type='text', text='">> \o Escape(content.text) \o <<"')]">>

\* lines 143 and 169: result.content.text if hasattr(result.content, 'text')
\* else str(result.content)
ToolResponseText(content) ==
    IF content.kind = "obj" THEN content.text ELSE StrOf(content)

\* what the provider answers to a successful call
ToolText(p, name, args, n) ==
    IF name = CropTool
    THEN IF p = "stub_plain" THEN StubCropText(args.val, n) ELSE get_crop_info(args.val, n)
    ELSE get_farm_info(args.val)

ErrorText == <<"boom">>

(***************************************************************************)
(* Turns, parts and the model's responses                                  *)
(***************************************************************************)
NoArgs == [key |-> "", val |-> ""]
NoCall == [name |-> "", args |-> NoArgs]
NoResponse == [name |-> "", content |-> <<>>]

TextPart(t) == [text |-> t, function_call |-> NoCall, function_response |-> NoResponse]
CallPart(c) == [text |-> <<>>, function_call |-> c, function_response |-> NoResponse]
ResponsePart(name, text) ==
    [text |-> <<>>, function_call |-> NoCall,
     function_response |-> [name |-> name, content |-> text]]

Turn(role, parts) == [role |-> role, parts |-> parts]

CropCall(crop) == [name |-> CropTool, args |-> [key |-> "crop_type", val |-> crop]]
FarmCall(id) == [name |-> FarmTool, args |-> [key |-> "farm_id", val |-> id]]

TextA == <<"I cannot answer that.">>
TextB == <<"Anything else?">>

\* the contents a model candidate may carry
ModelContents ==
    {<<>>,
     <<TextPart(TextA)>>,
     <<TextPart(TextA), TextPart(TextB)>>,
     <<CallPart(CropCall("corn")), CallPart(FarmCall("1"))>>,
     <<CallPart(FarmCall("1")), CallPart(CropCall("corn"))>>,
     <<TextPart(TextA), CallPart(FarmCall("1"))>>}

\* line 121: hasattr(part, 'text') holds of every part of a candidate, and the
\* text of a part that is not a text part is the empty string
TextPartsOf(parts) == [i \in DOMAIN parts |-> parts[i].text]

FunctionCallsOf_Reversed(parts) ==
    LET sel == SelectSeq(parts, LAMBDA p : p.function_call # NoCall)
    IN  [i \in DOMAIN sel |-> sel[Len(sel) + 1 - i].function_call]

\* line 131: the calls of the parts whose function_call is set, in order
FunctionCallsOf(parts) ==
    LET sel == SelectSeq(parts, LAMBDA p : p.function_call # NoCall)
    IN  [i \in DOMAIN sel |-> sel[i].function_call]

SystemText == <<"I am an assistant that uses tools to answer questions about crops and farms.">>

SeedHistory_UserOnly(q) == <<Turn("user", <<TextPart(q)>>)>>

\* lines 105-108
SeedHistory(q) == <<Turn("model", <<TextPart(SystemText)>>), Turn("user", <<TextPart(q)>>)>>

Queries ==
    {<<"what is the weather">>,
     <<"how many", " ", "wheat", " ", "crops are there">>,
     <<"How Many", " ", "Corn", " or ", "wheat">>,
     <<"HOW MANY", " ", "CORN">>,
     <<"Tell me about", " ", "corn">>,
     <<"how many", " ", "farms">>}

Crops == <<"wheat", "corn">>

FallbackTrigger_AnyCrop(q) ==
    \E i \in DOMAIN Crops : Contains(<<Crops[i]>>, Lower(q))

\* line 137
FallbackTrigger(q) ==
    /\ Contains(<<"how many">>, Lower(q))
    /\ \E i \in DOMAIN Crops : Contains(<<Crops[i]>>, Lower(q))

FirstCrop_ByPosition(q) ==
    LET lq == Lower(q)
        i == CHOOSE j \in DOMAIN lq :
                /\ \E c \in DOMAIN Crops : lq[j] = Crops[c]
                /\ \A h \in 1..(j - 1) : \A c \in DOMAIN Crops : lq[h] # Crops[c]
    IN  lq[i]

\* line 139: next(crop for crop in ["wheat", "corn"] if crop in query.lower())
FirstCrop(q) ==
    LET i == CHOOSE j \in DOMAIN Crops :
                /\ Contains(<<Crops[j]>>, Lower(q))
                /\ \A h \in 1..(j - 1) : ~Contains(<<Crops[h]>>, Lower(q))
    IN  Crops[i]

\* lines 145 and 173
CountSentence(count, crop) == <<"There are ">> \o NumStr(count) \o <<" ", crop, " crops.">>

ErrorFromTool_Bare(name, content) == StrOf(content)

\* line 167
ErrorFromTool(name, content) == <<"Error from tool ", name, ": ">> \o StrOf(content)

ErrorFetching_NoContent(crop, content) == <<"Error fetching ", crop, " info: ">>

\* line 149
ErrorFetching(crop, content) == <<"Error fetching ", crop, " info: ">> \o StrOf(content)

(***************************************************************************)
(* process_query (src/client/client.py, lines 84-193)                      *)
(***************************************************************************)
\* the descriptors list_tools returns for src/db_query_server.py
CropDescriptor ==
    [name |-> CropTool,
     description |-> <<"Retrieve detailed information about crops of a specific type">>,
     input_schema |->
        Map4("type", Str("object"),
             "properties", Map1("crop_type", Map2("title", Str("Crop Type"),
                                                  "type", Str("string"))),
             "required", List(<<Str("crop_type")>>),
             "title", Str("get_crop_infoArguments"))]

FarmDescriptor ==
    [name |-> FarmTool,
     description |-> <<"Get information about a specific farm.">>,
     input_schema |->
        Map4("type", Str("object"),
             "properties", Map1("farm_id", Map2("title", Str("Farm Id"),
                                                "type", Str("integer"))),
             "required", List(<<Str("farm_id")>>),
             "title", Str("get_farm_infoArguments"))]

ToolLists == {<<>>, <<CropDescriptor, FarmDescriptor>>}

GeminiTools_Untranslated(tools) ==
    [i \in DOMAIN tools |->
        [name |-> tools[i].name,
         description |-> tools[i].description,
         parameters |-> tools[i].input_schema]]

\* lines 97-101
GeminiTools(tools) ==
    [i \in DOMAIN tools |->
        [name |-> tools[i].name,
         description |-> tools[i].description,
         parameters |-> filter_schema(tools[i].input_schema)]]

NoTools == <<"unset">>

\* the locals of a process_query invocation that has not been entered
IdleFrame ==
    [pc |-> "idle", query |-> <<>>, gemini_tools |-> NoTools, history |-> <<>>,
     final_text |-> <<>>, text_parts |-> <<>>, function_calls |-> <<>>, idx |-> 0,
     crop_type |-> "", result |-> <<>>, modelCalls |-> 0, invoked |-> <<>>,
     listCalls |-> 0, available_tools |-> NoTools, modelTools |-> <<>>, error |-> <<>>]

Init ==
    /\ pc = "start"
    /\ query \in Queries
    /\ provider \in Providers
    /\ nrows \in 0..MaxRows
    /\ gemini_tools = NoTools
    /\ history = <<>>
    /\ final_text = <<>>
    /\ text_parts = <<>>
    /\ function_calls = <<>>
    /\ idx = 0
    /\ crop_type = ""
    /\ result = <<>>
    /\ modelCalls = 0
    /\ invoked = <<>>
    /\ listCalls = 0
    /\ available_tools = NoTools
    /\ modelTools = <<>>
    /\ error = <<>>
    /\ loop = "off"
    /\ typed = <<>>
    /\ printed = <<>>
    /\ reads = 0
    /\ reported = <<>>
    /\ other = IdleFrame
    /\ cur = 1
    /\ schema = Str("x")
    /\ translated = NoValue
    /\ retranslated = NoValue
    /\ spc = "idle"

\* str(e) of the exception a lost session raises in list_tools or call_tool
ConnectionClosed == <<"Connection closed">>

\* str(e) of the AttributeError of line 74
NoUpper == <<"object has no attribute 'upper'">>

\* line 119
NoCandidates == <<"No candidates in response">>

\* str(e) of an exception raised by generate_content itself
ModelUnavailable == <<"The model is overloaded">>

ModelErrors == {NoCandidates, ModelUnavailable}

\* line 88: list_tools raises (the connection is down)
ListToolsFails ==
    /\ pc = "start"
    /\ listCalls' = listCalls + 1
    /\ error' = ConnectionClosed
    /\ pc' = "raised"
    /\ UNCHANGED <<query, provider, nrows, available_tools, modelTools,
                   gemini_tools, history, final_text, text_parts,
                   function_calls, idx, crop_type, result, modelCalls, invoked>>
    /\ UNCHANGED <<callerVars, pairVars, schemaVars>>

\* lines 88-111: list the tools, translate their schemas, seed the history
ListTools ==
    /\ pc = "start"
    /\ \E tools \in ToolLists :
        LET specs == GeminiTools(tools)
        IN  /\ listCalls' = listCalls + 1
            /\ available_tools' = tools
            /\ IF \E i \in DOMAIN specs : specs[i].parameters = Raised
               THEN /\ error' = NoUpper
                    /\ pc' = "raised"
                    /\ UNCHANGED <<gemini_tools, history, final_text>>
               ELSE /\ gemini_tools' = specs
                    /\ history' = SeedHistory(query)
                    /\ final_text' = <<>>
                    /\ pc' = "awaiting_model"
                    /\ UNCHANGED error
    /\ UNCHANGED <<query, provider, nrows, modelTools, text_parts, function_calls, idx,
                   crop_type, result, modelCalls, invoked>>
    /\ UNCHANGED <<callerVars, pairVars, schemaVars>>

\* lines 116-125: generate_content raises, or the response has no candidate
ModelFails ==
    /\ pc = "awaiting_model"
    /\ modelCalls < MaxTurns
    /\ modelCalls' = modelCalls + 1
    /\ modelTools' = Append(modelTools, gemini_tools)
    /\ error' \in ModelErrors
    /\ pc' = "raised"
    /\ UNCHANGED <<query, provider, nrows, available_tools, gemini_tools, history,
                   final_text, text_parts, function_calls, idx, crop_type, result,
                   invoked, listCalls>>
    /\ UNCHANGED <<callerVars, pairVars, schemaVars>>

AfterTerminalTurn_AddsTexts(ft, parts) == ft \o TextPartsOf(parts) \o TextPartsOf(parts)

AfterTerminalTurn_OnlyTexts(ft, parts) == TextPartsOf(parts)

\* lines 151-153: the final text after a terminal turn without fallback
AfterTerminalTurn(ft, parts) == ft \o TextPartsOf(parts)

\* lines 116-155: one model turn, up to the next suspension point
ModelResponds ==
    /\ pc = "awaiting_model"
    /\ modelCalls < MaxTurns
    /\ \E content \in ModelContents :
        /\ modelCalls' = modelCalls + 1
        /\ modelTools' = Append(modelTools, gemini_tools)
        /\ text_parts' = TextPartsOf(content)
        /\ history' = Append(history, Turn("model", content))
        /\ function_calls' = FunctionCallsOf(content)
        /\ IF function_calls' = <<>>
           THEN IF FallbackTrigger(query)
                THEN /\ crop_type' = FirstCrop(query)
                     /\ pc' = "fallback_call"
                     /\ UNCHANGED <<final_text, result>>
                ELSE /\ final_text' = AfterTerminalTurn(final_text, content)
                     /\ result' = Join(final_text')
                     /\ pc' = "returned"
                     /\ UNCHANGED crop_type
           ELSE /\ pc' = "dispatching"
                /\ UNCHANGED <<final_text, result, crop_type>>
        /\ idx' = IF function_calls' = <<>> THEN idx ELSE 1
    /\ UNCHANGED <<error, query, provider, nrows, available_tools, gemini_tools, invoked,
                   listCalls>>
    /\ UNCHANGED <<callerVars, pairVars, schemaVars>>

Invocation(name, args, pos, forced, outcome) ==
    [name |-> name, args |-> args, turn |-> modelCalls, pos |-> pos,
     forced |-> forced, outcome |-> outcome]

ForcedArgs == [key |-> "crop_type", val |-> crop_type]

\* line 140: the forced call_tool raises
FallbackRaises ==
    /\ pc = "fallback_call"
    /\ invoked' = Append(invoked, Invocation(CropTool, ForcedArgs, 0, TRUE, "raised"))
    /\ error' = ConnectionClosed
    /\ pc' = "raised"
    /\ UNCHANGED <<query, provider, nrows, available_tools, modelTools,
                   gemini_tools, history, final_text, text_parts,
                   function_calls, idx, crop_type, result, modelCalls, listCalls>>
    /\ UNCHANGED <<callerVars, pairVars, schemaVars>>

\* lines 140-150, 155, 193: the forced call returns isError
FallbackError ==
    /\ pc = "fallback_call"
    /\ invoked' = Append(invoked, Invocation(CropTool, ForcedArgs, 0, TRUE, "error"))
    /\ final_text' = Append(final_text, ErrorFetching(crop_type, Content(provider, ErrorText)))
    /\ result' = Join(final_text')
    /\ pc' = "returned"
    /\ UNCHANGED <<error, query, provider, nrows, available_tools, modelTools,
                   gemini_tools, history, text_parts,
                   function_calls, idx, crop_type, modelCalls, listCalls>>
    /\ UNCHANGED <<callerVars, pairVars, schemaVars>>

\* lines 140-147, 155, 193: the forced call succeeds
FallbackSuccess ==
    /\ pc = "fallback_call"
    /\ LET content == Content(provider, ToolText(provider, CropTool, ForcedArgs, nrows))
           tool_response_text == ToolResponseText(content)
           crop_count == CountNonEmptyLines(tool_response_text)
       IN  /\ invoked' = Append(invoked, Invocation(CropTool, ForcedArgs, 0, TRUE, "ok"))
           /\ final_text' = Append(final_text, CountSentence(crop_count, crop_type))
           /\ result' = Join(final_text')
           /\ pc' = "returned"
    /\ UNCHANGED <<error, query, provider, nrows, available_tools, modelTools,
                   gemini_tools, history, text_parts,
                   function_calls, idx, crop_type, modelCalls, listCalls>>
    /\ UNCHANGED <<callerVars, pairVars, schemaVars>>

\* lines 163, 189-191: call_tool raises and process_query re-raises
DispatchRaises ==
    /\ pc = "dispatching"
    /\ LET call == function_calls[idx]
       IN  invoked' = Append(invoked, Invocation(call.name, call.args, idx, FALSE, "raised"))
    /\ error' = ConnectionClosed
    /\ pc' = "raised"
    /\ UNCHANGED <<query, provider, nrows, available_tools, modelTools,
                   gemini_tools, history, final_text, text_parts,
                   function_calls, idx, crop_type, result, modelCalls, listCalls>>
    /\ UNCHANGED <<callerVars, pairVars, schemaVars>>

AfterToolError_NextCall(i, calls) ==
    IF i < Len(calls)
    THEN [pc |-> "dispatching", idx |-> i + 1]
    ELSE [pc |-> "awaiting_model", idx |-> i]

\* line 168: break leaves the for loop; the while loop goes on at line 116
AfterToolError(i, calls) == [pc |-> "awaiting_model", idx |-> i]

\* lines 163-168: the call returns isError
DispatchError ==
    /\ pc = "dispatching"
    /\ LET call == function_calls[idx]
           next == AfterToolError(idx, function_calls)
       IN  /\ invoked' = Append(invoked, Invocation(call.name, call.args, idx, FALSE, "error"))
           /\ final_text' = Append(final_text,
                                   ErrorFromTool(call.name, Content(provider, ErrorText)))
           /\ pc' = next.pc
           /\ idx' = next.idx
    /\ UNCHANGED <<error, query, provider, nrows, available_tools, modelTools,
                   gemini_tools, history, text_parts,
                   function_calls, crop_type, result, modelCalls, listCalls>>
    /\ UNCHANGED <<callerVars, pairVars, schemaVars>>

ResponseText_AlwaysCount(q, call, tool_response_text) ==
    IF call.name = CropTool
    THEN CountSentence(CountNonEmptyLines(tool_response_text), call.args.val)
    ELSE tool_response_text

\* lines 171-176: the text stored for a successful call
ResponseText(q, call, tool_response_text) ==
    IF Contains(<<"how many">>, Lower(q)) /\ call.name = CropTool
    THEN CountSentence(CountNonEmptyLines(tool_response_text), call.args.val)
    ELSE tool_response_text

\* lines 177-187
HistoryAfterSuccess(h, name, response_text) ==
    Append(h, Turn("model", <<ResponsePart(name, response_text)>>))

\* lines 163-188: the call succeeds
DispatchSuccess ==
    /\ pc = "dispatching"
    /\ LET call == function_calls[idx]
           content == Content(provider, ToolText(provider, call.name, call.args, nrows))
           response_text == ResponseText(query, call, ToolResponseText(content))
       IN  /\ invoked' = Append(invoked, Invocation(call.name, call.args, idx, FALSE, "ok"))
           /\ history' = HistoryAfterSuccess(history, call.name, response_text)
           /\ final_text' = Append(final_text, response_text)
    /\ IF idx < Len(function_calls)
       THEN /\ idx' = idx + 1
            /\ pc' = "dispatching"
       ELSE /\ idx' = idx
            /\ pc' = "awaiting_model"
    /\ UNCHANGED <<error, query, provider, nrows, available_tools, modelTools,
                   gemini_tools, text_parts,
                   function_calls, crop_type, result, modelCalls, listCalls>>
    /\ UNCHANGED <<callerVars, pairVars, schemaVars>>

Next ==
    \/ ListToolsFails
    \/ ListTools
    \/ ModelFails
    \/ ModelResponds
    \/ FallbackRaises
    \/ FallbackError
    \/ FallbackSuccess
    \/ DispatchRaises
    \/ DispatchError
    \/ DispatchSuccess

Spec == Init /\ [][Next]_vars

(***************************************************************************)
(* chat_loop (src/client/client.py, lines 195-211)                         *)
(***************************************************************************)
IsQuit_CaseSensitive(q) == q = <<"quit">>

\* line 203
IsQuit(q) == Lower(q) = <<"quit">>

\* the lines the user types
InputLines ==
    {<<"quit">>,
     <<" ", "QUIT", " ">>,
     <<"Quit", NL>>,
     <<"quit", " ", "now">>,
     <<" ", "how many", " ", "wheat", " ", "crops are there", " ">>,
     <<"what is the weather">>}

\* str(e) of the EOFError input() raises when standard input is closed
EndOfInput == <<"EOF when reading a line">>

\* line 209
ErrorReport(message) == <<NL, "Error: ">> \o message

\* lines 201-205: a line is read; 'quit' leaves the loop, anything else is
\* handed to a new invocation of process_query
ReadLine ==
    /\ loop = "reading"
    /\ reads < MaxQueries
    /\ \E l \in InputLines :
        LET q == Strip(l)
        IN  /\ typed' = l
            /\ IF IsQuit(q)
               THEN /\ loop' = "ended"
                    /\ UNCHANGED queryVars
               ELSE /\ loop' = "processing"
                    /\ pc' = "start"
                    /\ query' = q
                    /\ gemini_tools' = NoTools
                    /\ history' = <<>>
                    /\ final_text' = <<>>
                    /\ text_parts' = <<>>
                    /\ function_calls' = <<>>
                    /\ idx' = 0
                    /\ crop_type' = ""
                    /\ result' = <<>>
                    /\ modelCalls' = 0
                    /\ invoked' = <<>>
                    /\ listCalls' = 0
                    /\ available_tools' = NoTools
                    /\ modelTools' = <<>>
                    /\ error' = <<>>
                    /\ UNCHANGED <<provider, nrows>>
    /\ reads' = reads + 1
    /\ printed' = <<>>
    /\ UNCHANGED <<reported, pairVars, schemaVars>>

\* lines 201, 208-209: input() raises at the end of standard input
ReadEOF ==
    /\ loop = "reading"
    /\ reads < MaxQueries
    /\ reads' = reads + 1
    /\ typed' = <<>>
    /\ printed' = ErrorReport(EndOfInput)
    /\ reported' = EndOfInput
    /\ UNCHANGED <<loop, queryVars, pairVars, schemaVars>>

\* lines 205-206: process_query returned
PrintResponse ==
    /\ loop = "processing"
    /\ pc = "returned"
    /\ printed' = <<NL>> \o result
    /\ loop' = "reading"
    /\ UNCHANGED <<typed, reads, reported, queryVars, pairVars, schemaVars>>

\* lines 205, 208-209: process_query raised
PrintError ==
    /\ loop = "processing"
    /\ pc = "raised"
    /\ printed' = ErrorReport(error)
    /\ reported' = error
    /\ loop' = "reading"
    /\ UNCHANGED <<typed, reads, queryVars, pairVars, schemaVars>>

\* lines 197-199: the session is connected and the loop is entered
InitChat ==
    /\ pc = "idle"
    /\ query = <<>>
    /\ provider = "mcp"
    /\ nrows = 1
    /\ gemini_tools = NoTools
    /\ history = <<>>
    /\ final_text = <<>>
    /\ text_parts = <<>>
    /\ function_calls = <<>>
    /\ idx = 0
    /\ crop_type = ""
    /\ result = <<>>
    /\ modelCalls = 0
    /\ invoked = <<>>
    /\ listCalls = 0
    /\ available_tools = NoTools
    /\ modelTools = <<>>
    /\ error = <<>>
    /\ loop = "reading"
    /\ typed = <<>>
    /\ printed = <<>>
    /\ reads = 0
    /\ reported = <<>>
    /\ other = IdleFrame
    /\ cur = 1
    /\ schema = Str("x")
    /\ translated = NoValue
    /\ retranslated = NoValue
    /\ spc = "idle"

NextChat ==
    \/ ReadLine
    \/ ReadEOF
    \/ PrintResponse
    \/ PrintError
    \/ Next

SpecChat == InitChat /\ [][NextChat]_vars

(***************************************************************************)
(* Two process_query invocations on one client, interleaved by the event   *)
(* loop at their await expressions (lines 88, 140 and 163)                 *)
(***************************************************************************)
\* the locals of the running invocation
Frame ==
    [pc |-> pc, query |-> query, gemini_tools |-> gemini_tools, history |-> history,
     final_text |-> final_text, text_parts |-> text_parts,
     function_calls |-> function_calls, idx |-> idx, crop_type |-> crop_type,
     result |-> result, modelCalls |-> modelCalls, invoked |-> invoked,
     listCalls |-> listCalls, available_tools |-> available_tools,
     modelTools |-> modelTools, error |-> error]

OwnHistory_Shared(running, suspended) == running

\* lines 105-108: history is a local of the invocation, so the invocation that
\* is resumed finds the list it left, whatever ran in between
OwnHistory(running, suspended) == suspended

\* the running invocation is at an await expression, or is over
AtAwait == pc \in {"start", "dispatching", "fallback_call", "returned", "raised"}

\* the event loop suspends the running invocation and resumes the other one
Switch ==
    /\ AtAwait
    /\ other.pc \notin {"idle", "returned", "raised"}
    /\ other' = Frame
    /\ cur' = 3 - cur
    /\ pc' = other.pc
    /\ query' = other.query
    /\ gemini_tools' = other.gemini_tools
    /\ history' = OwnHistory(history, other.history)
    /\ final_text' = other.final_text
    /\ text_parts' = other.text_parts
    /\ function_calls' = other.function_calls
    /\ idx' = other.idx
    /\ crop_type' = other.crop_type
    /\ result' = other.result
    /\ modelCalls' = other.modelCalls
    /\ invoked' = other.invoked
    /\ listCalls' = other.listCalls
    /\ available_tools' = other.available_tools
    /\ modelTools' = other.modelTools
    /\ error' = other.error
    /\ UNCHANGED <<provider, nrows, callerVars, schemaVars>>

\* the queries of the two invocations
FirstQuery == <<"how many", " ", "wheat", " ", "crops are there">>
SecondQueries == {<<"Tell me about", " ", "corn">>, <<"what is the weather">>}

\* both invocations were created and neither has run
InitPair ==
    /\ pc = "start"
    /\ query = FirstQuery
    /\ provider = "mcp"
    /\ nrows = 1
    /\ gemini_tools = NoTools
    /\ history = <<>>
    /\ final_text = <<>>
    /\ text_parts = <<>>
    /\ function_calls = <<>>
    /\ idx = 0
    /\ crop_type = ""
    /\ result = <<>>
    /\ modelCalls = 0
    /\ invoked = <<>>
    /\ listCalls = 0
    /\ available_tools = NoTools
    /\ modelTools = <<>>
    /\ error = <<>>
    /\ loop = "off"
    /\ typed = <<>>
    /\ printed = <<>>
    /\ reads = 0
    /\ reported = <<>>
    /\ \E q \in SecondQueries : other = [IdleFrame EXCEPT !.pc = "start", !.query = q]
    /\ cur = 1
    /\ schema = Str("x")
    /\ translated = NoValue
    /\ retranslated = NoValue
    /\ spc = "idle"

\* the model invocations left to the two invocations together
TurnsLeft == modelCalls + other.modelCalls < MaxTurns

NextPair ==
    \/ Switch
    \/ ListToolsFails
    \/ ListTools
    \/ ModelFails /\ TurnsLeft
    \/ ModelResponds /\ TurnsLeft
    \/ FallbackRaises
    \/ FallbackError
    \/ FallbackSuccess
    \/ DispatchRaises
    \/ DispatchError
    \/ DispatchSuccess

SpecPair == InitPair /\ [][NextPair]_vars

(***************************************************************************)
(* Runs of filter_schema alone, over the bounded schemas                   *)
(***************************************************************************)
InitSchema ==
    /\ pc = "idle"
    /\ query = <<>>
    /\ provider = "mcp"
    /\ nrows = 0
    /\ gemini_tools = NoTools
    /\ history = <<>>
    /\ final_text = <<>>
    /\ text_parts = <<>>
    /\ function_calls = <<>>
    /\ idx = 0
    /\ crop_type = ""
    /\ result = <<>>
    /\ modelCalls = 0
    /\ invoked = <<>>
    /\ listCalls = 0
    /\ available_tools = NoTools
    /\ modelTools = <<>>
    /\ error = <<>>
    /\ loop = "off"
    /\ typed = <<>>
    /\ printed = <<>>
    /\ reads = 0
    /\ reported = <<>>
    /\ other = IdleFrame
    /\ cur = 1
    /\ SchemaInit

NextSchema ==
    \/ Translate /\ UNCHANGED <<queryVars, callerVars, pairVars>>
    \/ Retranslate /\ UNCHANGED <<queryVars, callerVars, pairVars>>

SpecSchema == InitSchema /\ [][NextSchema]_vars

(***************************************************************************)
(* Observers used by the properties                                        *)
(***************************************************************************)
\* process_query has seeded its history and has not raised
Active == pc \in {"awaiting_model", "dispatching", "fallback_call", "returned"}

IsResponseTurn(t) == Len(t.parts) = 1 /\ t.parts[1].function_response # NoResponse

\* the turns that carry a FunctionResponse, in history order
ResponseTurns == SelectSeq(history, IsResponseTurn)

\* the turns appended for the model's candidates, in history order
ModelTurns == SelectSeq(SubSeq(history, 3, Len(history)), LAMBDA t : ~IsResponseTurn(t))

Forced == {i \in DOMAIN invoked : invoked[i].forced}
NoFallback == Forced = {}
LastInvoked == invoked[Len(invoked)]

\* the model-requested calls that succeeded
OkDispatched ==
    Cardinality({i \in DOMAIN invoked : ~invoked[i].forced /\ invoked[i].outcome = "ok"})

OkBefore(i) ==
    Cardinality({j \in 1..i : ~invoked[j].forced /\ invoked[j].outcome = "ok"})

ErrorTextOf(e) ==
    <<"Error from tool ", e.name, ": ">> \o StrOf(Content(provider, ErrorText))

\* the text a dispatched call left: its error text, or the content of its
\* FunctionResponse turn
DispatchTextAt(i) ==
    IF invoked[i].outcome = "error"
    THEN ErrorTextOf(invoked[i])
    ELSE ResponseTurns[OkBefore(i)].parts[1].function_response.content

DispatchTextsUpTo(n) == [i \in 1..n |-> DispatchTextAt(i)]

\* the text parts of the latest turn of the history
TerminalTexts ==
    LET last == history[Len(history)]
    IN  [i \in DOMAIN last.parts |-> last.parts[i].text]

HasWord(q, w) == \E i \in DOMAIN q : LowerTok(q[i]) = w

\* the lower-cased query contains 'how many' and 'wheat' or 'corn'
TriggerHolds(q) == HasWord(q, "how many") /\ (HasWord(q, "wheat") \/ HasWord(q, "corn"))

\* wheat comes before corn in the fixed set
ExpectedEntity(q) == IF HasWord(q, "wheat") THEN "wheat" ELSE "corn"

\* The non-empty lines of the text the client extracts from a successful crop
\* lookup: the stub's rows; the server's rows or its one-line sentinel; and one
\* line for the MCP list, whose str() holds the line breaks escaped.
ExtractedLines ==
    CASE provider = "stub_plain" -> nrows
      [] provider = "stub_text" -> IF nrows = 0 THEN 1 ELSE nrows
      [] provider = "mcp" -> 1

(***************************************************************************)
(* C1                                                                      *)
(***************************************************************************)
\* C1: when a dispatched call returns isError, exactly one text
\* 'Error from tool {name}: {content}' is appended for it and nothing is added
\* to the history; no later call of that turn is invoked (every later
\* invocation belongs to a later model turn); and process_query does not return
\* but goes back to invoking the model, which is the only thing it does next.
C1_ErrorShortCircuit ==
    /\ [][(/\ pc = "dispatching"
           /\ Len(invoked') = Len(invoked) + 1
           /\ invoked'[Len(invoked')].outcome = "error")
          => /\ final_text' = Append(final_text,
                    <<"Error from tool ", function_calls[idx].name, ": ">>
                        \o StrOf(Content(provider, ErrorText)))
             /\ history' = history
             /\ pc' = "awaiting_model"]_vars
    /\ [](\A i, j \in DOMAIN invoked :
            (i < j /\ invoked[i].outcome = "error") => invoked[j].turn > invoked[i].turn)
    /\ [][pc = "awaiting_model" => (modelCalls' = modelCalls + 1 /\ invoked' = invoked)]_vars

\* the first of two calls of a turn failed, the second was not invoked and the
\* model was invoked again
C1_Witness ==
    \E i \in DOMAIN invoked :
        /\ invoked[i].outcome = "error"
        /\ invoked[i].pos = 1
        /\ ~invoked[i].forced
        /\ Len(FunctionCallsOf(ModelTurns[invoked[i].turn].parts)) = 2
        /\ \A j \in DOMAIN invoked : invoked[j].turn = invoked[i].turn => j = i
        /\ modelCalls = invoked[i].turn + 1
        /\ pc = "returned"

(***************************************************************************)
(* C2                                                                      *)
(***************************************************************************)
\* C2 as stated: the history holds one seeded user turn, one turn per completed
\* model invocation and one turn per successful tool call.
C2_Original ==
    Active => Len(history) = 1 + modelCalls + OkDispatched

\* C2, amended: the history is seeded with two turns (a model-role instruction
\* and the user's query) and is append-only; each model invocation that returns
\* a candidate appends exactly one model turn; each successful model-requested
\* call appends exactly one model-role turn carrying its FunctionResponse; a
\* call that returns isError, raises, or is forced by the fallback appends
\* none. So the length is 2 + model invocations + successful dispatched calls.
C2_HistoryGrowth ==
    /\ [](Active =>
            /\ Len(history) = 2 + modelCalls + OkDispatched
            /\ history[1].role = "model"
            /\ history[2] = Turn("user", <<TextPart(query)>>))
    /\ [][/\ Len(history) <= Len(history')
          /\ SubSeq(history', 1, Len(history)) = history
          /\ (modelCalls' # modelCalls /\ pc' # "raised")
                => /\ Len(history') = Len(history) + 1
                   /\ history'[Len(history')].role = "model"
                   /\ ~IsResponseTurn(history'[Len(history')])
          /\ (invoked' # invoked)
                => LET e == invoked'[Len(invoked')]
                   IN  IF e.outcome = "ok" /\ ~e.forced
                       THEN history' = Append(history,
                                Turn("model", <<ResponsePart(e.name,
                                                    final_text'[Len(final_text')])>>))
                       ELSE history' = history]_vars

\* two model turns, a successful call and a failed one
C2_Witness ==
    /\ pc = "returned"
    /\ modelCalls = 2
    /\ OkDispatched = 1
    /\ \E i \in DOMAIN invoked : invoked[i].outcome = "error"
    /\ Len(history) = 5

(***************************************************************************)
(* C3                                                                      *)
(***************************************************************************)
\* C3: the turn loop ends. The loop of lines 113-155 has no iteration ceiling,
\* so for the model a run that outlives every ceiling is a run that is still
\* dispatching calls after MaxTurns model invocations: the claim, for the turns
\* the model runs, says that by then a turn without function calls (or an
\* error) was reached.
C3_TurnLoopTerminates ==
    modelCalls = MaxTurns => pc \in {"returned", "raised", "fallback_call"}

(***************************************************************************)
(* C4                                                                      *)
(***************************************************************************)
\* C4 as stated: without fallback the value returned is the newline-join of
\* the terminal turn's text parts and nothing else.
C4_Original ==
    (pc = "returned" /\ NoFallback) => result = Join(TerminalTexts)

\* C4, amended: without fallback the value returned is the newline-join of the
\* texts left by the calls dispatched in earlier turns (response text or
\* 'Error from tool' text, in order) followed by the terminal turn's text
\* parts; it is the terminal turn's text parts alone when no call was
\* dispatched.
C4_TerminalAnswer ==
    (pc = "returned" /\ NoFallback) =>
        /\ result = Join(DispatchTextsUpTo(Len(invoked)) \o TerminalTexts)
        /\ invoked = <<>> => result = Join(TerminalTexts)

\* a terminal turn with text, after a successful and a failed call
C4_Witness ==
    /\ pc = "returned"
    /\ NoFallback
    /\ \E i \in DOMAIN invoked : invoked[i].outcome = "ok"
    /\ \E i \in DOMAIN invoked : invoked[i].outcome = "error"
    /\ TerminalTexts = <<TextA, TextB>>

(***************************************************************************)
(* C5                                                                      *)
(***************************************************************************)
\* C5: for a query that does not match the fallback trigger, when the first
\* response has no function call the model was invoked once, no tool was
\* invoked, and the value returned is the newline-join of that response's text
\* parts ('what is the weather' answered 'I cannot answer that.' returns
\* 'I cannot answer that.').
C5_DirectAnswer ==
    (/\ pc = "returned"
     /\ ~TriggerHolds(query)
     /\ \A i \in DOMAIN history[3].parts : history[3].parts[i].function_call = NoCall)
    => /\ modelCalls = 1
       /\ invoked = <<>>
       /\ Len(history) = 3
       /\ result = Join([i \in DOMAIN history[3].parts |-> history[3].parts[i].text])
       /\ (/\ query = <<"what is the weather">>
           /\ history[3].parts = <<TextPart(<<"I cannot answer that.">>)>>)
          => result = <<"I cannot answer that.">>
       /\ history[3].parts = <<TextPart(TextA), TextPart(TextB)>>
          => result = TextA \o <<NL>> \o TextB

\* the direct answer with two text parts
C5_Witness ==
    /\ pc = "returned"
    /\ query = <<"what is the weather">>
    /\ modelCalls = 1
    /\ Len(history[3].parts) = 2

C7_FallbackOnlyOnTrigger ==
    /\ \A i \in Forced :
        /\ TriggerHolds(query)
        /\ FunctionCallsOf(ModelTurns[invoked[i].turn].parts) = <<>>
    /\ Cardinality(Forced) <= 1
    /\ \A i \in DOMAIN invoked \ Forced :
        LET calls == FunctionCallsOf(ModelTurns[invoked[i].turn].parts)
        IN  /\ invoked[i].pos \in DOMAIN calls
            /\ calls[invoked[i].pos] = [name |-> invoked[i].name, args |-> invoked[i].args]
    /\ ~TriggerHolds(query) => (NoFallback /\ pc # "fallback_call")

\* a query that names a crop without 'how many' was answered without any tool
C7_Witness ==
    /\ pc = "returned"
    /\ HasWord(query, "corn")
    /\ ~HasWord(query, "how many")
    /\ invoked = <<>>
    /\ result = TextA

(***************************************************************************)
(* Observers of schemas                                                    *)
(***************************************************************************)
\* no mapping of x, at any depth, has a key named 'title'
RECURSIVE NoTitleKey(_)
NoTitleKey(x) ==
    IF IsDict(x)
    THEN "title" \notin DOMAIN x.v /\ \A n \in DOMAIN x.v : NoTitleKey(x.v[n])
    ELSE IF IsList(x)
    THEN \A i \in DOMAIN x.v : NoTitleKey(x.v[i])
    ELSE TRUE

\* x is the 'properties' holder of a translated object schema
IsTranslatedObject(x) ==
    /\ IsDict(x)
    /\ HasKey(x, "type")
    /\ x.v["type"] = Str("OBJECT")
    /\ HasKey(x, "properties")
    /\ IsDict(x.v["properties"])

\* as NoTitleKey, but the property names of a translated object schema are
\* not looked at (the schemas of the properties are)
RECURSIVE NoTitleKeyButProperties(_)
NoTitleKeyButProperties(x) ==
    IF IsDict(x)
    THEN /\ "title" \notin DOMAIN x.v
         /\ \A n \in DOMAIN x.v :
                IF n = "properties" /\ IsTranslatedObject(x)
                THEN \A p \in DOMAIN x.v[n].v : NoTitleKeyButProperties(x.v[n].v[p])
                ELSE NoTitleKeyButProperties(x.v[n])
    ELSE IF IsList(x)
    THEN \A i \in DOMAIN x.v : NoTitleKeyButProperties(x.v[i])
    ELSE TRUE

\* translated form: every 'type' value is an upper-case string and no mapping
\* has a 'title' key
RECURSIVE IsTranslatedForm(_)
IsTranslatedForm(x) ==
    IF IsDict(x)
    THEN /\ "title" \notin DOMAIN x.v
         /\ HasKey(x, "type") => (x.v["type"].k = "str" /\ Upper(x.v["type"].v) = x.v["type"].v)
         /\ \A n \in DOMAIN x.v \ {"type"} : IsTranslatedForm(x.v[n])
    ELSE IF IsList(x)
    THEN \A i \in DOMAIN x.v : IsTranslatedForm(x.v[i])
    ELSE TRUE

(***************************************************************************)
(* C8                                                                      *)
(***************************************************************************)
\* C8: filter_schema leaves a schema in translated form unchanged, and
\* applying it to its own output changes nothing.
C8_Idempotent ==
    /\ (spc = "translated" /\ IsTranslatedForm(schema)) => translated = schema
    /\ spc = "retranslated" => retranslated = translated

(***************************************************************************)
(* C9                                                                      *)
(***************************************************************************)
\* C9 as stated: the output of filter_schema has no key named 'title' at any
\* depth.
C9_Original ==
    spc \in {"translated", "retranslated"} => NoTitleKey(translated)

\* C9, amended: whenever filter_schema returns, its output has no key named
\* 'title' at any depth, except that the names of an object schema's
\* properties are kept as they are, so that a property named 'title' stays a
\* key of 'properties'.
C9_TitleRemoved ==
    spc \in {"translated", "retranslated"} => NoTitleKeyButProperties(translated)

\* a schema with a 'title' keyword of its own and, below it, a property named
\* 'title': the keyword is gone and the property is kept
C9_Witness ==
    /\ spc = "translated"
    /\ IsDict(schema)
    /\ HasKey(schema, "title")
    /\ ~NoTitleKey(translated)
    /\ NoTitleKeyButProperties(translated)

(***************************************************************************)
(* C10                                                                     *)
(***************************************************************************)
\* C10: for every input mapping whose 'type' is 'object', filter_schema returns
\* a mapping with exactly the keys type, properties and required: type is
\* 'OBJECT', properties has the input's property names, each mapped to
\* filter_schema of the input property, and required is the input's (empty
\* when absent).
C10_ObjectSchema ==
    (/\ spc # "input"
     /\ IsDict(schema)
     /\ HasKey(schema, "type")
     /\ schema.v["type"] = Str("object"))
    => LET given == IF HasKey(schema, "properties")
                    THEN schema.v["properties"].v ELSE EmptyMap
       IN  /\ spc # "raised"
           /\ IsDict(translated)
           /\ DOMAIN translated.v = {"type", "properties", "required"}
           /\ translated.v["type"] = Str("OBJECT")
           /\ IsDict(translated.v["properties"])
           /\ DOMAIN translated.v["properties"].v = DOMAIN given
           /\ \A p \in DOMAIN given :
                translated.v["properties"].v[p] = filter_schema(given[p])
           /\ translated.v["required"] =
                (IF HasKey(schema, "required") THEN schema.v["required"] ELSE List(<<>>))

(***************************************************************************)
(* C11                                                                     *)
(***************************************************************************)
\* C11: filter_schema is total: on every JSON-schema-shaped input it returns
\* a value and never raises, also for a mapping whose 'type' is a list or a
\* nested mapping, and for an object schema without 'properties'.
C11_Total ==
    spc # "input" => /\ spc # "raised"
                     /\ translated # Raised

(***************************************************************************)
(* C12                                                                     *)
(***************************************************************************)
\* what the model is to be given for the descriptors of the two server tools
ExpectedParameters(prop, type_name) ==
    Map3("type", Str("OBJECT"),
         "properties", Map1(prop, Map2("type", Str(type_name),
                                       "description", Str(""))),
         "required", List(<<Str(prop)>>))

ExpectedSpecs ==
    IF available_tools = <<>>
    THEN <<>>
    ELSE <<[name |-> CropTool,
            description |-> CropDescriptor.description,
            parameters |-> ExpectedParameters("crop_type", "STRING")],
           [name |-> FarmTool,
            description |-> FarmDescriptor.description,
            parameters |-> ExpectedParameters("farm_id", "INTEGER")]>>

\* C12: a process_query run calls list_tools exactly once, before its first
\* model invocation; every model invocation of the run is passed the same
\* specs, the translation of what list_tools returned; with an empty tool list
\* nothing is raised and the model is invoked with an empty spec list.
C12_ToolListing ==
    /\ [](listCalls <= 1)
    /\ [](modelCalls > 0 => listCalls = 1)
    /\ [][listCalls' # listCalls => modelCalls = 0 /\ modelCalls' = 0]_vars
    /\ [](/\ Len(modelTools) = modelCalls
          /\ \A i \in DOMAIN modelTools : modelTools[i] = ExpectedSpecs)
    /\ [][(listCalls' # listCalls /\ Len(available_tools') = 0)
           => pc' = "awaiting_model"]_vars
    /\ [][pc = "awaiting_model"
           => /\ modelCalls' = modelCalls + 1
              /\ modelTools' = Append(modelTools, ExpectedSpecs)]_vars

\* list_tools returned nothing and the model was invoked twice, each time with
\* an empty spec list
C12_Witness ==
    /\ listCalls = 1
    /\ Len(available_tools) = 0
    /\ modelCalls = 2
    /\ modelTools = <<<<>>, <<>>>>
    /\ pc = "returned"

(***************************************************************************)
(* C13                                                                     *)
(***************************************************************************)
\* the spellings of 'quit' among the lines the user types
QuitSpellings == {<<"quit">>, <<" ", "QUIT", " ">>, <<"Quit", NL>>}

\* C13: when a model invocation returns no candidate, process_query raises at
\* once: no turn is appended, no tool is invoked, no text is returned and the
\* model is not invoked again for that query; chat_loop reports the error and
\* goes on reading; the loop ends on the input 'quit' in any letter case, and
\* on no other input.
C13_ModelErrorNotFatal ==
    /\ [][(pc = "awaiting_model" /\ error' = <<"No candidates in response">>)
           => /\ pc' = "raised"
              /\ UNCHANGED <<history, invoked, final_text, result>>]_vars
    /\ [](pc = "raised" => result = <<>>)
    /\ [][(loop = "processing" /\ pc = "raised")
           => /\ loop' = "reading"
              /\ printed' = <<NL, "Error: ">> \o error
              /\ UNCHANGED <<pc, modelCalls, invoked, history, result, reads>>]_vars
    /\ [][(reads' # reads /\ typed' \in QuitSpellings) => loop' = "ended"]_vars
    /\ [](loop = "ended" => typed \in QuitSpellings)
    /\ [][loop = "ended" => UNCHANGED vars]_vars

\* a no-candidate error was reported, the next line was read and its query
\* was answered
C13_Witness ==
    /\ reported = <<"No candidates in response">>
    /\ reads = 2
    /\ loop = "processing"
    /\ pc = "returned"

(***************************************************************************)
(* C14                                                                     *)
(***************************************************************************)
\* the named calls of a turn, in the order the model returned them
CallsIn(turn) == SelectSeq(turn.parts, LAMBDA p : p.function_call.name # "")

\* the latest turn before position h that carries no FunctionResponse
TurnBefore(h) ==
    CHOOSE m \in 1..(h - 1) :
        /\ ~IsResponseTurn(history[m])
        /\ \A j \in (m + 1)..(h - 1) : IsResponseTurn(history[j])

\* every FunctionResponse turn answers the call at its own position in the
\* model turn it follows
ResponsesPaired ==
    \A h \in DOMAIN history :
        IsResponseTurn(history[h]) =>
            LET m == TurnBefore(h)
                calls == CallsIn(history[m])
            IN  /\ h - m <= Len(calls)
                /\ history[h].parts[1].function_response.name
                        = calls[h - m].function_call.name

\* every model-requested invocation is the call at its position in its model
\* turn, and follows the success of the call before it
InvokedInOrder ==
    \A i \in DOMAIN invoked :
        ~invoked[i].forced =>
            LET e == invoked[i]
                calls == CallsIn(ModelTurns[e.turn])
            IN  /\ e.pos \in 1..Len(calls)
                /\ e.name = calls[e.pos].function_call.name
                /\ e.args = calls[e.pos].function_call.args
                /\ IF e.pos = 1
                   THEN i = 1 \/ invoked[i - 1].turn < e.turn
                   ELSE /\ i > 1
                        /\ invoked[i - 1].turn = e.turn
                        /\ invoked[i - 1].pos = e.pos - 1
                        /\ invoked[i - 1].outcome = "ok"

\* the calls of the latest model turn were all answered, or one returned an error
BatchOver ==
    LET calls == CallsIn(ModelTurns[modelCalls])
        mine == SelectSeq(invoked, LAMBDA e : e.turn = modelCalls /\ ~e.forced)
    IN  /\ mine # <<>>
        /\ \/ mine[Len(mine)].outcome = "error"
           \/ /\ Len(mine) = Len(calls)
              /\ mine[Len(mine)].outcome = "ok"

\* C14: the calls of a model turn are invoked one at a time in the order the
\* model returned them, each after the call before it was answered; a
\* successful call appends its own FunctionResponse turn in the step that
\* handles its result; the FunctionResponse turns after a model turn answer a
\* prefix of its calls, in order; the model is invoked again only once the
\* batch is finished or cut short by an error.
C14_DispatchOrder ==
    /\ [](Active => (ResponsesPaired /\ InvokedInOrder))
    /\ [][(/\ Len(invoked') = Len(invoked) + 1
           /\ ~invoked'[Len(invoked')].forced
           /\ invoked'[Len(invoked')].outcome = "ok")
           => /\ Len(history') = Len(history) + 1
              /\ SubSeq(history', 1, Len(history)) = history
              /\ IsResponseTurn(history'[Len(history')])
              /\ history'[Len(history')].parts[1].function_response.name
                    = invoked'[Len(invoked')].name]_vars
    /\ [][(modelCalls >= 1 /\ modelCalls' = modelCalls + 1) => BatchOver]_vars

\* both calls of one model turn succeeded, their two FunctionResponse turns
\* follow the turn in the order of the calls, and the model was invoked again
C14_Witness ==
    /\ modelCalls = 2
    /\ Len(invoked) >= 2
    /\ invoked[1].name = CropTool /\ invoked[1].pos = 1 /\ invoked[1].outcome = "ok"
    /\ invoked[2].name = FarmTool /\ invoked[2].pos = 2 /\ invoked[2].outcome = "ok"
    /\ Len(history) >= 5
    /\ history[4].parts[1].function_response.name = CropTool
    /\ history[5].parts[1].function_response.name = FarmTool

(***************************************************************************)
(* C15                                                                     *)
(***************************************************************************)
\* the model-requested calls dispatched so far
Dispatched == {i \in DOMAIN invoked : ~invoked[i].forced}

\* the count sentences of the answer
CountSentences ==
    {i \in DOMAIN final_text :
        /\ Len(final_text[i]) > 0
        /\ final_text[i][1] = "There are "}

\* C15: in a run where a model-requested call was dispatched in an earlier
\* turn, the terminal turn does not force get_crop_info again, and the answer
\* holds no second count sentence.
C15_FallbackOnlyWhenDeclined ==
    Dispatched # {} => /\ Forced = {}
                       /\ pc # "fallback_call"
                       /\ (pc = "returned" => Cardinality(CountSentences) <= 1)

(***************************************************************************)
(* C16                                                                     *)
(***************************************************************************)
\* text is the given three-token head followed by a rendering of the tool's
\* error content
IsErrorText(text, head) ==
    /\ Len(text) > 3
    /\ SubSeq(text, 1, 3) = head
    /\ Contains(<<"boom">>, SubSeq(text, 4, Len(text)))

\* the invocation logged by this step returned isError
ErrorStep ==
    /\ Len(invoked') = Len(invoked) + 1
    /\ invoked'[Len(invoked')].outcome = "error"

\* the error texts of the answer
ErrorTexts ==
    {i \in DOMAIN final_text :
        /\ Len(final_text[i]) > 0
        /\ final_text[i][1] \in {"Error from tool ", "Error fetching "}}

\* C16: a tool result with isError=true raises nothing; in the fallback the
\* text 'Error fetching {entity} info: {content}' is appended and
\* process_query returns; in the dispatch loop 'Error from tool {name}:
\* {content}' is appended; every error text is part of the returned value.
C16_ToolFailuresAreData ==
    /\ [][ErrorStep => (pc' # "raised" /\ error' = error)]_vars
    /\ [][(ErrorStep /\ invoked'[Len(invoked')].forced)
           => /\ Len(final_text') = Len(final_text) + 1
              /\ SubSeq(final_text', 1, Len(final_text)) = final_text
              /\ IsErrorText(final_text'[Len(final_text')],
                             <<"Error fetching ", ExpectedEntity(query), " info: ">>)
              /\ pc' = "returned"]_vars
    /\ [][(ErrorStep /\ ~invoked'[Len(invoked')].forced)
           => /\ Len(final_text') = Len(final_text) + 1
              /\ SubSeq(final_text', 1, Len(final_text)) = final_text
              /\ IsErrorText(final_text'[Len(final_text')],
                             <<"Error from tool ", function_calls[idx].name, ": ">>)]_vars
    /\ [](pc = "returned"
          => /\ Cardinality(ErrorTexts)
                  = Cardinality({i \in DOMAIN invoked : invoked[i].outcome = "error"})
             /\ \A i \in ErrorTexts : Contains(final_text[i], result))

\* a dispatched call and the forced call both returned isError, and the
\* returned value holds both error texts
C16_Witness ==
    /\ pc = "returned"
    /\ \E i \in DOMAIN invoked : ~invoked[i].forced /\ invoked[i].outcome = "error"
    /\ \E i \in DOMAIN invoked : invoked[i].forced /\ invoked[i].outcome = "error"
    /\ Contains(<<"Error from tool ">>, result)
    /\ Contains(<<"Error fetching ">>, result)

(***************************************************************************)
(* C17                                                                     *)
(***************************************************************************)
\* the text the client extracts from the provider's answer to a call: the
\* text itself, or the rendering of the MCP list that holds it
RawTextOf(call) ==
    LET text == ToolText(provider, call.name, call.args, nrows)
    IN  IF provider = "mcp"
        THEN <<"[TextContent(type='text', text='">> \o Escape(text) \o <<"')]">>
        ELSE text

\* what a successful model-requested call is to leave in the history and in
\* the answer
ExpectedResponseText(call) ==
    IF HasWord(query, "how many") /\ call.name = "get_crop_info"
    THEN <<"There are ", Digit(ExtractedLines), " ", call.args.val, " crops.">>
    ELSE RawTextOf(call)

\* the invocation logged by this step is a model-requested call that succeeded
DispatchOkStep ==
    /\ Len(invoked') = Len(invoked) + 1
    /\ ~invoked'[Len(invoked')].forced
    /\ invoked'[Len(invoked')].outcome = "ok"

\* C17: a successful model-requested call stores, in its FunctionResponse
\* turn and in the answer, the sentence 'There are {count} {crop_type} crops.'
\* exactly when the tool is get_crop_info and the lower-cased query contains
\* 'how many', and the extracted content unmodified for every other call; the
\* text in the history and the text in the answer are the same.
C17_CropCountPostProcessing ==
    /\ [][DispatchOkStep
           => /\ final_text' = Append(final_text, ExpectedResponseText(function_calls[idx]))
              /\ history'[Len(history')].parts[1].function_response.content
                    = ExpectedResponseText(function_calls[idx])]_vars
    /\ [](Active =>
            \A i \in Dispatched :
                invoked[i].outcome = "ok" =>
                    ResponseTurns[OkBefore(i)].parts[1].function_response.content
                        = final_text[i])

\* on a 'how many' query get_crop_info left its count sentence and
\* get_farm_info its content as it came
C17_Witness ==
    /\ HasWord(query, "how many")
    /\ Len(invoked) >= 2
    /\ invoked[1].name = CropTool /\ ~invoked[1].forced /\ invoked[1].outcome = "ok"
    /\ invoked[2].name = FarmTool /\ ~invoked[2].forced /\ invoked[2].outcome = "ok"
    /\ final_text[1][1] = "There are "
    /\ final_text[2] = RawTextOf(FarmCall("1"))
    /\ final_text[2][1] # "There are "

(***************************************************************************)
(* C18                                                                     *)
(***************************************************************************)
\* the model-requested calls of a frame that left a text, and those that
\* left a FunctionResponse turn
LeftText(f) == SelectSeq(f.invoked, LAMBDA e : ~e.forced /\ e.outcome \in {"ok", "error"})
LeftTurn(f) == SelectSeq(f.invoked, LAMBDA e : ~e.forced /\ e.outcome = "ok")

\* the texts the terminal turn of a returned frame added
TerminalCount(f) ==
    IF f.pc # "returned" THEN 0
    ELSE IF \E i \in DOMAIN f.invoked : f.invoked[i].forced THEN 1
    ELSE Len(f.text_parts)

\* the history and the texts of a frame are those of its own query, turns and
\* calls, and of nothing else
FrameOwn(f) ==
    f.pc \in {"awaiting_model", "dispatching", "fallback_call", "returned"} =>
        LET responses == SelectSeq(f.history, IsResponseTurn)
        IN  /\ Len(f.history) = 2 + f.modelCalls + Len(LeftTurn(f))
            /\ f.history[2].role = "user"
            /\ f.history[2].parts[1].text = f.query
            /\ Len(responses) = Len(LeftTurn(f))
            /\ \A k \in DOMAIN responses :
                    responses[k].parts[1].function_response.name = LeftTurn(f)[k].name
            /\ Len(f.final_text) = Len(LeftText(f)) + TerminalCount(f)
            /\ (f.pc = "returned" => f.result = Join(f.final_text))

\* C18: of two process_query invocations interleaved at their await
\* expressions, each keeps its own history and its own texts: a step of one
\* leaves the locals of the other as they were, a resumed invocation finds its
\* locals as it left them, and the history and texts of each hold only what
\* was produced for its own query; an invocation entered after the other one
\* is over starts from its own seed.
C18_IndependentConversations ==
    /\ [](FrameOwn(Frame) /\ FrameOwn(other))
    /\ [][cur' = cur => other' = other]_vars
    /\ [][cur' # cur => (other' = Frame /\ Frame' = other)]_vars
    /\ [](query # other.query)

\* both invocations are in the middle of their dispatch loops, each with a
\* FunctionResponse turn of its own, and the first one runs again
C18_Witness ==
    /\ cur = 1
    /\ pc = "dispatching"
    /\ other.pc = "dispatching"
    /\ Len(LeftTurn(Frame)) = 1
    /\ Len(LeftTurn(other)) = 1
    /\ Len(history) = 4
    /\ Len(other.history) = 4
    /\ history[2] # other.history[2]

(***************************************************************************)
(* C19                                                                     *)
(***************************************************************************)
\* C19: when the data service answers the crop lookup of a 'how many' crop
\* query, by the fallback or by a model-requested call, the count of every sentence 'There are {count}
\* {entity} crops.' in the answer is the number of rows the service matched,
\* for every number of rows from zero up.
C19_CountAgrees ==
    (provider # "stub_plain" /\ TriggerHolds(query)) =>
        \A i \in CountSentences :
            /\ Len(final_text[i]) = 5
            /\ final_text[i][2] = Digit(nrows)

(***************************************************************************)
(* C20                                                                     *)
(***************************************************************************)
\* str() of the content of a result with isError set
ErrorRendering ==
    CASE provider = "stub_plain" -> <<"boom">>
      [] provider = "stub_text" -> <<"TextContent(type='text', text='", "boom", "')">>
      [] provider = "mcp" -> <<"[TextContent(type='text', text='", "boom", "')]">>

\* the text a logged invocation is to leave in the answer
ExpectedTextOf(e) ==
    IF e.forced
    THEN IF e.outcome = "ok"
         THEN <<"There are ", Digit(ExtractedLines), " ", ExpectedEntity(query), " crops.">>
         ELSE <<"Error fetching ", ExpectedEntity(query), " info: ">> \o ErrorRendering
    ELSE IF e.outcome = "ok"
         THEN ExpectedResponseText([name |-> e.name, args |-> e.args])
         ELSE <<"Error from tool ", e.name, ": ">> \o ErrorRendering

\* the answer: one text per invocation, in the order of the invocations, and
\* then the text parts of the terminal turn unless the fallback fired
ExpectedAnswer ==
    [i \in DOMAIN invoked |-> ExpectedTextOf(invoked[i])]
        \o (IF Forced = {} THEN TerminalTexts ELSE <<>>)

\* C20: the value process_query returns is the newline-join of the texts of
\* the dispatched calls, in execution order (the response text of a call that
\* succeeded, the 'Error from tool' text of one that failed), followed by the
\* contribution of the terminal turn (the fallback sentence or fallback error
\* text, else the turn's text parts); text parts of turns with function calls
\* are not in it; the list of texts only grows.
C20_AnswerShape ==
    /\ [](pc = "returned" => /\ final_text = ExpectedAnswer
                             /\ result = Join(ExpectedAnswer)
                             /\ \A i \in Forced : i = Len(invoked))
    /\ [][/\ Len(final_text') >= Len(final_text)
          /\ SubSeq(final_text', 1, Len(final_text)) = final_text]_vars

\* a model turn with a text part and a call, whose call succeeded, and then
\* the fallback: the answer is the call's text and the fallback sentence,
\* without the text part of the turn that held the call
C20_Witness ==
    /\ pc = "returned"
    /\ Len(invoked) = 2
    /\ ~invoked[1].forced /\ invoked[1].outcome = "ok"
    /\ invoked[2].forced /\ invoked[2].outcome = "ok"
    /\ Len(CallsIn(history[3])) = 1
    /\ history[3].parts[1].text = <<"I cannot answer that.">>
    /\ Len(final_text) = 2
    /\ ~Contains(<<"I cannot answer that.">>, result)

====
